---- MODULE Spec2Model ----
(***************************************************************************)
(* Model of excel_service.py: an HTTP service that appends to, smart-      *)
(* updates and conditionally updates spreadsheet files.  A spreadsheet is  *)
(* a table [cols, rows]: cols is the ordered header, rows a sequence of    *)
(* functions from the header's column names to cell values.  Every handler *)
(* is load whole file -> mutate a DataFrame in memory -> write whole file. *)
(***************************************************************************)
EXTENDS Integers, Sequences, FiniteSets, TLC

\* ---------------------------------------------------------------- bounds
\* A request carries at most MaxBatch records or update tuples, and is
\* enumerated only while (rows in the file) + (records or update tuples in
\* the request) stays within MaxRows.
MaxRows == 3
MaxBatch == 2

\* ---------------------------------------------------------------- values
NaN == "NaN"                    \* pandas' missing cell; JSON null in a request
Val == {"1", "2"}               \* non-null scalar cell values
Cell == Val \cup {NaN}
ColNames == {"id", "st"}        \* column names requests may mention
NoColumn == "None"              \* match_column absent from the request body

Range(s) == {s[i] : i \in 1..Len(s)}

\* ----------------------------------------------------------------- paths
\* A path is a sequence of tokens; the token ".xls" is the only place where
\* the text '.xls' occurs, so "book.xlsx" is <<"book", ".xls", "x">>.
XlsFile == <<"book", ".xls">>
XlsxFile == <<"book", ".xls", "x">>
Paths == {XlsFile, XlsxFile}

RECURSIVE LastDot(_, _)
LastDot(p, i) ==
    IF i = 0 THEN 0
    ELSE IF p[i] = ".xls" THEN i
    ELSE LastDot(p, i - 1)

\* os.path.splitext(file_path)[1].lower()
Ext(p) ==
    LET d == LastDot(p, Len(p)) IN
    IF d = 0 THEN ""
    ELSE IF d = Len(p) THEN ".xls"
    ELSE IF SubSeq(p, d + 1, Len(p)) = <<"x">> THEN ".xlsx"
    ELSE "other"

\* file_path.replace('.xls', '.xlsx'): every occurrence is replaced
RECURSIVE ReplaceXls(_)
ReplaceXls(p) ==
    IF p = <<>> THEN <<>>
    ELSE IF Head(p) = ".xls" THEN <<".xls", "x">> \o ReplaceXls(Tail(p))
    ELSE <<Head(p)>> \o ReplaceXls(Tail(p))

\* the path the handlers hand to to_excel
SavePathSame(file_path) == file_path

SavePath(file_path) ==
    IF Ext(file_path) = ".xlsx" THEN file_path ELSE ReplaceXls(file_path)

\* ----------------------------------------------------------------- files
NoFile == [exists |-> FALSE, cols |-> <<>>, rows |-> <<>>]

\* os.path.exists(file_path)
Exists(d, p) == p \in DOMAIN d /\ d[p].exists

\* read_excel_file: both supported formats decode to the stored table
ReadExcelFile(d, file_path) ==
    IF Ext(file_path) \in {".xlsx", ".xls"}
    THEN [ok |-> TRUE, cols |-> d[file_path].cols, rows |-> d[file_path].rows]
    ELSE [ok |-> FALSE, cols |-> <<>>, rows |-> <<>>]

\* a variant of ToExcel that leaves a file that is already there alone
ToExcelNoOverwrite(d, path, df) ==
    [p \in DOMAIN d \cup {path} |->
        IF p = path /\ ~Exists(d, p)
        THEN [exists |-> TRUE, cols |-> df.cols, rows |-> df.rows]
        ELSE d[p]]

\* df.to_excel(path, index=False): the whole table replaces the file
ToExcel(d, path, df) ==
    [p \in DOMAIN d \cup {path} |->
        IF p = path THEN [exists |-> TRUE, cols |-> df.cols, rows |-> df.rows]
        ELSE d[p]]

\* ---------------------------------------------------------------- pandas
\* pd.DataFrame([record], columns=df.columns): one row over the table's
\* columns; keys outside the columns are dropped, missing ones are NaN
NewRow(record, cols) ==
    [c \in Range(cols) |-> IF c \in DOMAIN record THEN record[c] ELSE NaN]

RECURSIVE NewRows(_, _)
NewRows(records, cols) ==
    IF records = <<>> THEN <<>>
    ELSE <<NewRow(Head(records), cols)>> \o NewRows(Tail(records), cols)

\* pd.concat([df, new_df], ignore_index=True)
Concat(df, new_rows) == [cols |-> df.cols, rows |-> df.rows \o new_rows]

\* element of (Series == scalar): a missing value equals nothing
PdEq(a, b) == a # NaN /\ b # NaN /\ a = b

\* mask = df[col] == value, as the set of row positions where it is True
Mask(df, col, value) ==
    {i \in 1..Len(df.rows) : PdEq(df.rows[i][col], value)}

\* df.loc[mask, col] = value; a column the frame lacks is added at the end,
\* NaN outside the mask (setting with enlargement)
LocSet(df, mask, col, value) ==
    IF col \in Range(df.cols)
    THEN [cols |-> df.cols,
          rows |-> [i \in 1..Len(df.rows) |->
                      IF i \in mask THEN [df.rows[i] EXCEPT ![col] = value]
                      ELSE df.rows[i]]]
    ELSE [cols |-> Append(df.cols, col),
          rows |-> [i \in 1..Len(df.rows) |->
                      [c \in Range(df.cols) \cup {col} |->
                          IF c = col THEN (IF i \in mask THEN value ELSE NaN)
                          ELSE df.rows[i][c]]]]

\* -------------------------------------------------------------- requests
\* request.json.  new_data is a JSON object (is_dict) or a JSON array of
\* objects; items holds the object(s) either way.
NoPath == <<>>
NoData == [is_dict |-> FALSE, items |-> <<>>]

\* not new_data: an empty array or an empty object
Falsy(new_data) ==
    IF new_data.is_dict THEN DOMAIN new_data.items[1] = {}
    ELSE new_data.items = <<>>

\* if isinstance(new_data, dict): new_data = [new_data]
AsList(new_data) == new_data.items

Response(status, error, updated, added, total, numbers) ==
    [status |-> status, error |-> error, updated_rows |-> updated,
     added_rows |-> added, total_rows |-> total, new_row_numbers |-> numbers]

NoResponse == Response(0, "", 0, 0, 0, <<>>)

\* return jsonify({"error": ...}), status
ErrorResponse(status, error) == Response(status, error, 0, 0, 0, <<>>)

\* the state of a handler's loop: the frame, the counters, and whether an
\* exception has left the try block
Acc(df) == [ok |-> TRUE, error |-> "", df |-> df, updated |-> 0, added |-> 0]

\* a handler that returned before it read the file
NoFrame == Acc([cols |-> <<>>, rows |-> <<>>])

\* ------------------------------------------------- append-to-next-row/-excel
\* variants of AppendFrame: one that refuses keys outside the header, one
\* that concatenates in the other order
AppendFrameStrict(df, new_data) ==
    IF \E i \in 1..Len(AsList(new_data)) :
           ~(DOMAIN AsList(new_data)[i] \subseteq Range(df.cols))
    THEN [Acc(df) EXCEPT !.ok = FALSE, !.error = "SchemaMismatch"]
    ELSE [Acc(Concat(df, NewRows(AsList(new_data), df.cols)))
             EXCEPT !.added = Len(AsList(new_data))]

AppendFramePrepend(df, new_data) ==
    [Acc([cols |-> df.cols, rows |-> NewRows(AsList(new_data), df.cols) \o df.rows])
        EXCEPT !.added = Len(AsList(new_data))]

AppendFrame(df, new_data) ==
    [Acc(Concat(df, NewRows(AsList(new_data), df.cols)))
        EXCEPT !.added = Len(AsList(new_data))]

\* ------------------------------------------------------------ smart-update
\* for col, value in record.items(): if col in df.columns:
\*     df.loc[mask, col] = value
RECURSIVE AssignRecord(_, _, _, _)
AssignRecord(df, mask, record, keys) ==
    IF keys = {} THEN df
    ELSE LET col == CHOOSE c \in keys : TRUE IN
         AssignRecord(
             IF col \in Range(df.cols) THEN LocSet(df, mask, col, record[col])
             ELSE df,
             mask, record, keys \ {col})

\* variants of SmartRecord: one that skips a record lacking the match key,
\* one that counts only the rows whose cells changed, one that counts a
\* matching record once
SmartRecordSkipUnkeyed(acc, record, match_column) ==
    IF match_column # NoColumn /\ match_column \notin DOMAIN record
    THEN acc
    ELSE IF match_column # NoColumn /\ match_column \in Range(acc.df.cols)
    THEN LET mask == Mask(acc.df, match_column, record[match_column]) IN
         IF mask # {}
         THEN [acc EXCEPT !.df = AssignRecord(acc.df, mask, record, DOMAIN record),
                          !.updated = @ + Cardinality(mask)]
         ELSE [acc EXCEPT !.df = Concat(acc.df, <<NewRow(record, acc.df.cols)>>),
                          !.added = @ + 1]
    ELSE [acc EXCEPT !.df = Concat(acc.df, <<NewRow(record, acc.df.cols)>>),
                     !.added = @ + 1]

SmartRecordCountChanged(acc, record, match_column) ==
    IF match_column # NoColumn
       /\ match_column \in DOMAIN record
       /\ match_column \in Range(acc.df.cols)
    THEN LET mask == Mask(acc.df, match_column, record[match_column])
             new == AssignRecord(acc.df, mask, record, DOMAIN record)
         IN
         IF mask # {}
         THEN [acc EXCEPT !.df = new,
                          !.updated = @ + Cardinality({i \in mask :
                                                  new.rows[i] # acc.df.rows[i]})]
         ELSE [acc EXCEPT !.df = Concat(acc.df, <<NewRow(record, acc.df.cols)>>),
                          !.added = @ + 1]
    ELSE [acc EXCEPT !.df = Concat(acc.df, <<NewRow(record, acc.df.cols)>>),
                     !.added = @ + 1]

SmartRecordCountOne(acc, record, match_column) ==
    IF match_column # NoColumn
       /\ match_column \in DOMAIN record
       /\ match_column \in Range(acc.df.cols)
    THEN LET mask == Mask(acc.df, match_column, record[match_column]) IN
         IF mask # {}
         THEN [acc EXCEPT !.df = AssignRecord(acc.df, mask, record, DOMAIN record),
                          !.updated = @ + 1]
         ELSE [acc EXCEPT !.df = Concat(acc.df, <<NewRow(record, acc.df.cols)>>),
                          !.added = @ + 1]
    ELSE [acc EXCEPT !.df = Concat(acc.df, <<NewRow(record, acc.df.cols)>>),
                     !.added = @ + 1]

SmartRecord(acc, record, match_column) ==
    IF match_column # NoColumn
       /\ match_column \in DOMAIN record
       /\ match_column \in Range(acc.df.cols)
    THEN LET mask == Mask(acc.df, match_column, record[match_column]) IN
         IF mask # {}
         THEN [acc EXCEPT !.df = AssignRecord(acc.df, mask, record, DOMAIN record),
                          !.updated = @ + Cardinality(mask)]
         ELSE [acc EXCEPT !.df = Concat(acc.df, <<NewRow(record, acc.df.cols)>>),
                          !.added = @ + 1]
    ELSE [acc EXCEPT !.df = Concat(acc.df, <<NewRow(record, acc.df.cols)>>),
                     !.added = @ + 1]

\* a variant of SmartLoop that matches every record against the frame as it
\* was loaded
RECURSIVE SmartLoopSnapshot(_, _, _)
SmartLoopSnapshot(df, records, match_column) ==
    IF records = <<>> THEN Acc(df)
    ELSE LET acc == SmartLoopSnapshot(df, SubSeq(records, 1, Len(records) - 1),
                                      match_column)
             record == records[Len(records)]
             mask == IF match_column # NoColumn
                        /\ match_column \in DOMAIN record
                        /\ match_column \in Range(df.cols)
                     THEN Mask(df, match_column, record[match_column])
                     ELSE {}
         IN IF mask # {}
            THEN [acc EXCEPT !.df = AssignRecord(acc.df, mask, record, DOMAIN record),
                             !.updated = @ + Cardinality(mask)]
            ELSE [acc EXCEPT !.df = Concat(acc.df, <<NewRow(record, acc.df.cols)>>),
                             !.added = @ + 1]

\* for record in new_data: each record meets the frame the earlier ones left
RECURSIVE SmartLoop(_, _, _)
SmartLoop(df, records, match_column) ==
    IF records = <<>> THEN Acc(df)
    ELSE SmartRecord(SmartLoop(df, SubSeq(records, 1, Len(records) - 1), match_column),
                     records[Len(records)], match_column)

\* ------------------------------------------------------------ update-excel
\* one pass of the loop body, for one update tuple
UpdateTuple(acc, update) ==
    IF ~acc.ok THEN acc
    ELSE IF update.condition_column \notin Range(acc.df.cols)
    THEN [acc EXCEPT !.ok = FALSE, !.error = "KeyError"]
    ELSE LET mask == Mask(acc.df, update.condition_column, update.condition_value) IN
         IF mask # {}
         THEN [acc EXCEPT !.df = LocSet(acc.df, mask, update.update_column,
                                        update.new_value),
                          !.updated = @ + Cardinality(mask)]
         ELSE acc

RECURSIVE UpdateLoop(_, _)
UpdateLoop(df, updates) ==
    IF updates = <<>> THEN Acc(df)
    ELSE UpdateTuple(UpdateLoop(df, SubSeq(updates, 1, Len(updates) - 1)),
                     updates[Len(updates)])

\* ----------------------------------------------------------------- handlers
\* if not file_path or not new_data  /  if not file_path or not updates
MissingField(r) ==
    \/ r.file_path = NoPath
    \/ IF r.op = "update-excel" THEN r.updates = <<>> ELSE Falsy(r.new_data)

\* the in-memory part of a handler, between the read and the write
Merge(r, df) ==
    CASE r.op = "smart-update" -> SmartLoop(df, AsList(r.new_data), r.match_column)
      [] r.op = "update-excel" -> UpdateLoop(df, r.updates)
      [] OTHER -> AppendFrame(df, r.new_data)

\* updated_count += mask.sum() makes the counter a numpy integer, which
\* jsonify cannot serialise; the other numbers of a body are Python ints
Serializable(r, m) == ~(r.op = "smart-update" /\ m.updated > 0)

\* the return jsonify({...}) that ends each try block: the success body, or,
\* when jsonify raises, the except clause's answer
Success(r, df, m) ==
    IF ~Serializable(r, m) THEN ErrorResponse(500, "TypeError") ELSE
    CASE r.op = "append-to-next-row" ->
            Response(200, "", 0, m.added, Len(m.df.rows),
                     [i \in 1..(Len(m.df.rows) - Len(df.rows)) |-> Len(df.rows) + i])
      [] r.op = "smart-update" ->
            Response(200, "", m.updated, m.added, Len(m.df.rows), <<>>)
      [] r.op = "append-excel" ->
            Response(200, "", 0, m.added, Len(m.df.rows), <<>>)
      [] OTHER ->
            Response(200, "", m.updated, 0, Len(m.df.rows), <<>>)

\* a whole handler, from request to response: what it leaves on disk and
\* what it answers
Handle(d, r) ==
    IF MissingField(r)
    THEN [disk |-> d, resp |-> ErrorResponse(400, "required"), mem |-> NoFrame]
    ELSE IF ~Exists(d, r.file_path)
    THEN [disk |-> d, resp |-> ErrorResponse(404, "File not found"), mem |-> NoFrame]
    ELSE LET rd == ReadExcelFile(d, r.file_path) IN
         IF ~rd.ok
         THEN [disk |-> d, resp |-> ErrorResponse(500, "ValueError"), mem |-> NoFrame]
         ELSE LET df == [cols |-> rd.cols, rows |-> rd.rows]
                  m == Merge(r, df)
              IN IF ~m.ok
                 THEN [disk |-> d, resp |-> ErrorResponse(500, m.error), mem |-> m]
                 ELSE [disk |-> ToExcel(d, SavePath(r.file_path), m.df),
                       resp |-> Success(r, df, m), mem |-> m]

\* -------------------------------------------------------------------- state
VARIABLES
    disk,       \* path -> the spreadsheet file stored there (or NoFile)
    book,       \* the path the clients of this run put in file_path
    before,     \* disk as it was when the request being answered arrived
    req,        \* the request being answered (NoRequest between requests)
    resp,       \* the response it gets
    mem,        \* the handler's frame and counters when it returned
    pass,       \* 1: a fresh request; 2: the client sent the same one again
    rpc,        \* worker thread -> where it is in its handler
    rreq,       \* worker thread -> the request it serves
    rdf,        \* worker thread -> the frame it read from the file
    racc,       \* worker thread -> its loop's final state, in memory
    rresp,      \* worker thread -> the response it gave
    rseen,      \* worker thread -> how many writes had happened when it read
    writes      \* the worker threads that have written, in order

seq_vars == <<before, req, resp, mem, pass>>
race_vars == <<rpc, rreq, rdf, racc, rresp, rseen, writes>>
vars == <<disk, book, before, req, resp, mem, pass,
          rpc, rreq, rdf, racc, rresp, rseen, writes>>

\* the development server answers each request on a thread of its own
Threads == {1, 2}

NoRequest ==
    [op |-> "none", file_path |-> NoPath, new_data |-> NoData,
     match_column |-> NoColumn, updates |-> <<>>]

\* the request bodies clients send: objects with any of the column names as
\* keys; the "id" value may be null
Records ==
    UNION {{rec \in [K -> Cell] : \A c \in K : c = "id" \/ rec[c] # NaN} :
           K \in SUBSET ColNames}

Lists(S, n) == UNION {[1..k -> S] : k \in 0..n}

NewData(n) ==
    {[is_dict |-> TRUE, items |-> <<rec>>] : rec \in IF n >= 1 THEN Records ELSE {}}
    \cup {[is_dict |-> FALSE, items |-> recs] : recs \in Lists(Records, n)}

Updates ==
    [condition_column : ColNames, condition_value : Val,
     update_column : ColNames, new_value : {"2"}]

Min(a, b) == IF a <= b THEN a ELSE b

\* records or update tuples a request on the file at path p may carry
Room(p) ==
    Min(MaxBatch, MaxRows - (IF Exists(disk, p) THEN Len(disk[p].rows) ELSE 0))

Size(r) == IF r.op = "update-excel" THEN Len(r.updates) ELSE Len(r.new_data.items)

\* the workbooks a run may start with.  A modern workbook starts with at
\* most one row; a legacy one is never written again, so it starts with all
\* the rows it will ever have.
SeedCols == {<<"id">>, <<"id", "st">>}

Workbook(cols, n) ==
    [exists |-> TRUE, cols |-> cols,
     rows |-> [i \in 1..n |-> [c \in Range(cols) |-> "1"]]]

ModernSeeds == {Workbook(c, n) : c \in SeedCols, n \in {0, 1}}

LegacySeeds == {Workbook(c, MaxRows - 1) : c \in SeedCols}

Init ==
    /\ book \in Paths
    /\ \E f \in {NoFile} \cup (IF Ext(book) = ".xls" THEN LegacySeeds ELSE ModernSeeds) :
          disk = [p \in Paths |-> IF p = book THEN f ELSE NoFile]
    /\ before = disk
    /\ req = NoRequest
    /\ resp = NoResponse
    /\ mem = NoFrame
    /\ pass = 1
    /\ rpc = [t \in Threads |-> "idle"]
    /\ rreq = [t \in Threads |-> NoRequest]
    /\ rdf = [t \in Threads |-> NoFrame.df]
    /\ racc = [t \in Threads |-> NoFrame]
    /\ rresp = [t \in Threads |-> NoResponse]
    /\ rseen = [t \in Threads |-> 0]
    /\ writes = <<>>

\* one request, served from arrival to response
Serve(r, n) ==
    LET out == Handle(disk, r) IN
    /\ disk' = out.disk
    /\ before' = disk
    /\ req' = r
    /\ resp' = out.resp
    /\ mem' = out.mem
    /\ pass' = n
    /\ UNCHANGED <<book, race_vars>>

AppendToNextRow ==
    /\ req = NoRequest
    /\ \E nd \in NewData(Room(book)) :
          Serve([op |-> "append-to-next-row", file_path |-> book, new_data |-> nd,
                 match_column |-> NoColumn, updates |-> <<>>], 1)

SmartUpdate ==
    /\ req = NoRequest
    /\ \E nd \in NewData(Room(book)) : \E mc \in ColNames \cup {NoColumn} :
          Serve([op |-> "smart-update", file_path |-> book, new_data |-> nd,
                 match_column |-> mc, updates |-> <<>>], 1)

AppendExcel ==
    /\ req = NoRequest
    /\ \E nd \in NewData(Room(book)) :
          Serve([op |-> "append-excel", file_path |-> book, new_data |-> nd,
                 match_column |-> NoColumn, updates |-> <<>>], 1)

UpdateExcel ==
    /\ req = NoRequest
    /\ \E us \in Lists(Updates, Room(book)) :
          Serve([op |-> "update-excel", file_path |-> book, new_data |-> NoData,
                 match_column |-> NoColumn, updates |-> us], 1)

\* the client sends the request it has just been answered once more
Resubmit ==
    /\ req # NoRequest
    /\ pass = 1
    /\ Size(req) <= Room(req.file_path)
    /\ Serve(req, 2)

\* the response is delivered and the request context is gone
Close ==
    /\ req # NoRequest
    /\ req' = NoRequest
    /\ resp' = NoResponse
    /\ mem' = NoFrame
    /\ before' = disk
    /\ pass' = 1
    /\ UNCHANGED <<disk, book, race_vars>>

Next ==
    \/ AppendToNextRow
    \/ SmartUpdate
    \/ AppendExcel
    \/ UpdateExcel
    \/ Resubmit
    \/ Close

Spec == Init /\ [][Next]_vars

\* ------------------------------------------------- two requests in flight
\* the requests that race: one record or one update tuple each
RaceRequests ==
    {[op |-> "smart-update", file_path |-> book, new_data |-> nd,
      match_column |-> mc, updates |-> <<>>] :
        nd \in NewData(Min(1, Room(book))), mc \in {NoColumn, "id"}}
    \cup {[op |-> "update-excel", file_path |-> book, new_data |-> NoData,
           match_column |-> NoColumn, updates |-> us] :
        us \in Lists(Updates, Min(1, Room(book)))}

Answer(t, r, response) ==
    /\ rreq' = [rreq EXCEPT ![t] = r]
    /\ rresp' = [rresp EXCEPT ![t] = response]
    /\ rpc' = [rpc EXCEPT ![t] = "done"]

\* a thread takes a request, checks it and reads the file
Arrive(t) ==
    /\ rpc[t] = "idle"
    /\ \E r \in RaceRequests :
          IF MissingField(r)
          THEN Answer(t, r, ErrorResponse(400, "required"))
               /\ UNCHANGED <<rdf, rseen>>
          ELSE IF ~Exists(disk, r.file_path)
          THEN Answer(t, r, ErrorResponse(404, "File not found"))
               /\ UNCHANGED <<rdf, rseen>>
          ELSE LET rd == ReadExcelFile(disk, r.file_path) IN
               IF ~rd.ok
               THEN Answer(t, r, ErrorResponse(500, "ValueError"))
                    /\ UNCHANGED <<rdf, rseen>>
               ELSE /\ rreq' = [rreq EXCEPT ![t] = r]
                    /\ rdf' = [rdf EXCEPT ![t] = [cols |-> rd.cols, rows |-> rd.rows]]
                    /\ rseen' = [rseen EXCEPT ![t] = Len(writes)]
                    /\ rpc' = [rpc EXCEPT ![t] = "loaded"]
                    /\ UNCHANGED rresp
    /\ UNCHANGED <<disk, book, seq_vars, racc, writes>>

\* the thread runs its loop over the frame it read
Work(t) ==
    /\ rpc[t] = "loaded"
    /\ LET m == Merge(rreq[t], rdf[t]) IN
          /\ racc' = [racc EXCEPT ![t] = m]
          /\ IF m.ok
             THEN rpc' = [rpc EXCEPT ![t] = "merged"] /\ UNCHANGED rresp
             ELSE /\ rpc' = [rpc EXCEPT ![t] = "done"]
                  /\ rresp' = [rresp EXCEPT ![t] = ErrorResponse(500, m.error)]
    /\ UNCHANGED <<disk, book, seq_vars, rreq, rdf, rseen, writes>>

\* the thread writes its frame over the file and answers
Save(t) ==
    /\ rpc[t] = "merged"
    /\ disk' = ToExcel(disk, SavePath(rreq[t].file_path), racc[t].df)
    /\ rresp' = [rresp EXCEPT ![t] = Success(rreq[t], rdf[t], racc[t])]
    /\ rpc' = [rpc EXCEPT ![t] = "done"]
    /\ writes' = Append(writes, t)
    /\ UNCHANGED <<book, seq_vars, rreq, rdf, racc, rseen>>

NextRace == \E t \in Threads : Arrive(t) \/ Work(t) \/ Save(t)

SpecRace == Init /\ [][NextRace]_vars

\* ------------------------------------------------------- reading a state
\* the request being answered, as the properties below read it
Answered == req # NoRequest
Found == Answered /\ Exists(before, req.file_path)
Loaded == [cols |-> before[req.file_path].cols, rows |-> before[req.file_path].rows]
Batch == req.new_data.items
Appending == Answered /\ req.op \in {"append-to-next-row", "append-excel"}
Smart == Found /\ req.op = "smart-update" /\ ~Falsy(req.new_data)
Updating == Found /\ req.op = "update-excel"

\* the file the response reports on: the given path, or for a legacy path
\* the modern file beside it
Sibling(p) == Append(p, "x")
Persisted ==
    IF Ext(req.file_path) = ".xls" THEN disk[Sibling(req.file_path)]
    ELSE disk[req.file_path]
Holds(file, df) == file.exists /\ file.cols = df.cols /\ file.rows = df.rows

\* a record as a row of a table with columns cols
Projected(record, cols) ==
    [c \in Range(cols) |-> IF c \in DOMAIN record THEN record[c] ELSE NaN]

\* the loop's state after the first i records / update tuples
Step(i) == SmartLoop(Loaded, SubSeq(Batch, 1, i), req.match_column)
UStep(i) == UpdateLoop(Loaded, SubSeq(req.updates, 1, i))

\* matching is attempted for this record against this frame
Keyed(record, df) ==
    /\ req.match_column # NoColumn
    /\ req.match_column \in DOMAIN record
    /\ req.match_column \in Range(df.cols)

\* the rows of df whose match-column cell equals the record's (a missing
\* value on either side equals nothing)
Hits(record, df) ==
    {j \in 1..Len(df.rows) :
        /\ df.rows[j][req.match_column] # NaN
        /\ df.rows[j][req.match_column] = record[req.match_column]}

RECURSIVE SumHits(_, _)
SumHits(i, df) ==
    IF i = 0 THEN 0 ELSE SumHits(i - 1, df) + Cardinality(Hits(Batch[i], df))

\* the handler ended in the loop's final state, stored that frame, and a
\* success body carries those counters
SmartTied ==
    /\ mem = Step(Len(Batch))
    /\ Holds(Persisted, mem.df)
    /\ resp.status = 200 =>
          /\ resp.updated_rows = mem.updated
          /\ resp.added_rows = mem.added
          /\ resp.total_rows = Len(mem.df.rows)

\* ------------------------------------------------------------------ claims
\* C1: smart-update fan-out.  A record whose match-column value equals that
\* of k >= 1 rows overwrites, in every one of those k rows, each column the
\* record and the table share, appends nothing and adds exactly k to the
\* updated counter; with k = 0 exactly one row is appended and the added
\* counter grows by 1.
C1_FanOut ==
    Smart =>
        /\ SmartTied
        /\ \A i \in 1..Len(Batch) :
             LET a == Step(i - 1)
                 b == Step(i)
                 rec == Batch[i]
                 hits == Hits(rec, a.df)
                 k == Cardinality(hits)
             IN Keyed(rec, a.df) =>
                  /\ b.df.cols = a.df.cols
                  /\ k >= 1 =>
                       /\ Len(b.df.rows) = Len(a.df.rows)
                       /\ \A j \in 1..Len(a.df.rows) : \A c \in Range(a.df.cols) :
                            b.df.rows[j][c] =
                               IF j \in hits /\ c \in DOMAIN rec THEN rec[c]
                               ELSE a.df.rows[j][c]
                       /\ b.updated = a.updated + k
                       /\ b.added = a.added
                  /\ k = 0 =>
                       /\ b.df.rows = Append(a.df.rows, Projected(rec, a.df.cols))
                       /\ b.added = a.added + 1
                       /\ b.updated = a.updated

\* a record that matched two rows and changed them
C1_Witness ==
    /\ Smart
    /\ \E i \in 1..Len(Batch) :
         /\ Keyed(Batch[i], Step(i - 1).df)
         /\ Cardinality(Hits(Batch[i], Step(i - 1).df)) = 2
         /\ Step(i).df # Step(i - 1).df
         /\ Step(i).updated = Step(i - 1).updated + 2

\* C2: in-batch visibility.  Records are processed in input order against
\* the evolving table: a record whose match value equals that of an earlier
\* record of the batch always updates and never appends; two records with
\* the same match value that no row of the loaded table has give one
\* appended row and one update.
C2_InBatchVisibility ==
    Smart =>
        /\ SmartTied
        /\ \A i, j \in 1..Len(Batch) :
             (/\ i < j
              /\ Keyed(Batch[i], Loaded) /\ Keyed(Batch[j], Loaded)
              /\ Batch[i][req.match_column] # NaN
              /\ Batch[i][req.match_column] = Batch[j][req.match_column])
             => /\ Step(j).added = Step(j - 1).added
                /\ Step(j).updated > Step(j - 1).updated
                /\ Len(Step(j).df.rows) = Len(Step(j - 1).df.rows)
        /\ (/\ Len(Batch) = 2
            /\ Keyed(Batch[1], Loaded) /\ Keyed(Batch[2], Loaded)
            /\ Batch[1][req.match_column] # NaN
            /\ Batch[1][req.match_column] = Batch[2][req.match_column]
            /\ Hits(Batch[1], Loaded) = {})
           => /\ mem.added = 1
              /\ mem.updated = 1
              /\ Len(Persisted.rows) = Len(Loaded.rows) + 1

\* two records with a match value new to a non-empty table: the second one
\* rewrote the row the first one appended
C2_Witness ==
    /\ Smart
    /\ Len(Batch) = 2 /\ Len(Loaded.rows) = 1
    /\ Keyed(Batch[1], Loaded) /\ Keyed(Batch[2], Loaded)
    /\ Batch[1][req.match_column] # NaN
    /\ Batch[1][req.match_column] = Batch[2][req.match_column]
    /\ Hits(Batch[1], Loaded) = {}
    /\ Projected(Batch[1], Loaded.cols) # Projected(Batch[2], Loaded.cols)
    /\ mem.added = 1 /\ mem.updated = 1
    /\ Persisted.rows[2] = Projected(Batch[2], Loaded.cols)

\* C4 as stated: an append request with a record that has a key outside
\* the table's columns fails, and nothing is appended or stored.
C4_ExtraKeyRejected ==
    (/\ Appending /\ Found /\ ~Falsy(req.new_data)
     /\ \E i \in 1..Len(Batch) : ~(DOMAIN Batch[i] \subseteq Range(Loaded.cols)))
    => /\ resp.status = 500
       /\ disk = before

\* C4 as the code has it: such a request succeeds; every record is appended
\* cut down to the table's columns (keys outside them are dropped, columns
\* the record lacks are empty) and the table gets no new column.
C4_ExtraKeyDropped ==
    (/\ Appending /\ Found /\ ~Falsy(req.new_data)
     /\ \E i \in 1..Len(Batch) : ~(DOMAIN Batch[i] \subseteq Range(Loaded.cols)))
    => /\ resp.status = 200
       /\ Persisted.exists
       /\ Persisted.cols = Loaded.cols
       /\ Persisted.rows =
             Loaded.rows \o [i \in 1..Len(Batch) |-> Projected(Batch[i], Loaded.cols)]
       /\ resp.total_rows = Len(Loaded.rows) + Len(Batch)

\* a record with an "st" key and an "id" key appended to a table that has
\* only the "id" column
C4_Witness ==
    /\ Appending /\ Found /\ resp.status = 200
    /\ Loaded.cols = <<"id">>
    /\ \E i \in 1..Len(Batch) :
         /\ DOMAIN Batch[i] = {"id", "st"}
         /\ Batch[i]["st"] # NaN
         /\ Persisted.rows[Len(Loaded.rows) + i] = [id |-> Batch[i]["id"]]

\* C5: append is a pure append.  With a non-empty record sequence the stored
\* table has len(T) + len(records) rows, its first len(T) rows are T's in
\* the original order and the new rows follow in input order; an empty
\* record sequence is rejected and nothing is written.
C5_PureAppend ==
    Appending =>
        /\ (Found /\ ~Falsy(req.new_data)) =>
              /\ resp.status = 200
              /\ Persisted.exists
              /\ Len(Persisted.rows) = Len(Loaded.rows) + Len(Batch)
              /\ SubSeq(Persisted.rows, 1, Len(Loaded.rows)) = Loaded.rows
              /\ \A i \in 1..Len(Batch) :
                    Persisted.rows[Len(Loaded.rows) + i] =
                       Projected(Batch[i], Loaded.cols)
              /\ resp.total_rows = Len(Persisted.rows)
        /\ Batch = <<>> =>
              /\ resp.status = 400
              /\ disk = before

\* two different records appended to a table that had a row
C5_Witness ==
    /\ Appending /\ Found /\ resp.status = 200
    /\ Len(Loaded.rows) >= 1 /\ Len(Batch) = 2
    /\ Projected(Batch[1], Loaded.cols) # Projected(Batch[2], Loaded.cols)
    /\ Loaded.rows[1] # Projected(Batch[1], Loaded.cols)
    /\ Len(Persisted.rows) = Len(Loaded.rows) + 2

\* C6: smart-update falls back to an unconditional append.  A record is
\* appended as a new row, with no row changed and no counter but the added
\* one moved, whenever the match column is not supplied, is not a key of
\* the record or is not a column of the table; with no match column the
\* result is the loaded rows followed by one row per record and the updated
\* count is 0.
C6_FallbackAppend ==
    Smart =>
        /\ SmartTied
        /\ \A i \in 1..Len(Batch) :
             ~Keyed(Batch[i], Step(i - 1).df) =>
                /\ Step(i).df.cols = Step(i - 1).df.cols
                /\ Step(i).df.rows =
                      Append(Step(i - 1).df.rows,
                             Projected(Batch[i], Step(i - 1).df.cols))
                /\ Step(i).added = Step(i - 1).added + 1
                /\ Step(i).updated = Step(i - 1).updated
        /\ req.match_column = NoColumn =>
                /\ Persisted.rows =
                      Loaded.rows \o
                         [i \in 1..Len(Batch) |-> Projected(Batch[i], Loaded.cols)]
                /\ mem.updated = 0
                /\ mem.added = Len(Batch)

\* a match column is supplied and the table has it, the record lacks it, and
\* the record was appended although its other cell equals an existing row's
C6_Witness ==
    /\ Smart
    /\ req.match_column = "id" /\ Loaded.cols = <<"id", "st">>
    /\ Len(Loaded.rows) >= 1
    /\ \E i \in 1..Len(Batch) :
         /\ DOMAIN Batch[i] = {"st"}
         /\ Batch[i]["st"] = Loaded.rows[1]["st"]
         /\ Step(i).added = Step(i - 1).added + 1
         /\ Len(Step(i).df.rows) = Len(Step(i - 1).df.rows) + 1

\* every record of the batch matches at least one row of the loaded table
AllMatch ==
    /\ req.match_column # NoColumn
    /\ req.match_column \in Range(Loaded.cols)
    /\ \A i \in 1..Len(Batch) :
         /\ req.match_column \in DOMAIN Batch[i]
         /\ Hits(Batch[i], Loaded) # {}

\* C9 as stated: a batch applied a second time, every record of which
\* matches a row, appends nothing and ends with an updated count of 0.
C9_SecondPassCountsZero ==
    (Smart /\ pass = 2 /\ AllMatch) =>
        /\ mem.added = 0
        /\ mem.updated = 0

\* C9 as the code has it: a batch applied a second time, every record of
\* which matches a row of the table that pass loads, appends nothing and
\* counts as updated every row it matches: the number of matching rows
\* summed over the records, at least the number of records and never 0.
\* The answer to such a pass is the except clause's, since that count is
\* not serialisable; the file is written all the same.
C9_SecondPassCountsMatches ==
    (Smart /\ pass = 2 /\ AllMatch) =>
        /\ mem = Step(Len(Batch))
        /\ mem.added = 0
        /\ Holds(Persisted, mem.df)
        /\ Len(Persisted.rows) = Len(Loaded.rows)
        /\ mem.updated = SumHits(Len(Batch), Loaded)
        /\ mem.updated >= Len(Batch)
        /\ mem.updated > 0
        /\ resp.status = 500 /\ resp.error = "TypeError"

\* a second pass of two records over a modern file in which no cell
\* changes any more: two updates are counted all the same
C9_Witness ==
    /\ Smart /\ pass = 2 /\ AllMatch
    /\ Ext(req.file_path) = ".xlsx"
    /\ Len(Batch) = 2
    /\ disk = before
    /\ mem.updated = 2

\* C8: two requests on one path, uncoordinated.  When both have read the
\* file before either wrote and both write, the file ends up as the request
\* that wrote last alone would have left it, the table both read with only
\* that request applied, and neither answer tells of the other request:
\* each is the success answer the request gets when served alone (for a
\* smart-update that matched rows, the unserialisable-counter answer).
C8_LastWriteWins ==
    (/\ \A t \in Threads : rpc[t] = "done" /\ rseen[t] = 0
     /\ Len(writes) = 2)
    => /\ rdf[writes[1]] = rdf[writes[2]]
       /\ LET last == writes[2]
              alone == Merge(rreq[last], rdf[writes[1]])
              file == IF Ext(book) = ".xls" THEN disk[Sibling(book)] ELSE disk[book]
          IN /\ alone.ok
             /\ Holds(file, alone.df)
       /\ \A t \in Threads :
             IF rreq[t].op = "smart-update" /\ racc[t].updated > 0
             THEN rresp[t].status = 500 /\ rresp[t].error = "TypeError"
             ELSE /\ rresp[t].status = 200
                  /\ rresp[t].total_rows = Len(racc[t].df.rows)
                  /\ rresp[t].added_rows = racc[t].added

\* both requests appended a different row and both were told so; the file
\* has one row more, the second writer's, not two, and serving the two
\* requests one after the other would have left a different file
C8_Witness ==
    /\ \A t \in Threads : rpc[t] = "done" /\ rresp[t].status = 200
    /\ \A t \in Threads : rseen[t] = 0
    /\ Len(writes) = 2
    /\ Ext(book) = ".xlsx"
    /\ \A t \in Threads : rreq[t].op = "smart-update" /\ rresp[t].added_rows = 1
    /\ racc[1].df # racc[2].df
    /\ Len(disk[book].rows) = Len(rdf[1].rows) + 1
    /\ disk[book].rows[Len(disk[book].rows)] =
          Projected(rreq[writes[2]].new_data.items[1], rdf[1].cols)
    /\ ~Holds(disk[book], Merge(rreq[writes[2]], Merge(rreq[writes[1]], rdf[1]).df).df)

\* C3 as stated: an update request with a tuple whose condition column is
\* not a column of the table fails with the unknown-column error (pandas'
\* KeyError, answered with status 500) and leaves the stored files as they
\* were, wherever the tuple stands in the list.
C3_UnknownConditionColumnFails ==
    (/\ Updating /\ req.updates # <<>>
     /\ \E i \in 1..Len(req.updates) :
           req.updates[i].condition_column \notin Range(Loaded.cols))
    => /\ resp.status = 500
       /\ resp.error = "KeyError"
       /\ disk = before

\* What holds of a failing update request: the loop fails exactly when a
\* tuple's condition column is not a column of the frame as the earlier
\* tuples left it, and then nothing is written.
UpdateFailureWritesNothing ==
    (Updating /\ req.updates # <<>>) =>
        /\ (\E i \in 1..Len(req.updates) :
               /\ UStep(i - 1).ok
               /\ req.updates[i].condition_column \notin Range(UStep(i - 1).df.cols))
           <=> (resp.status = 500 /\ resp.error = "KeyError")
        /\ resp.status = 500 => disk = before
        /\ resp.status # 500 => (resp.status = 200 /\ Holds(Persisted, mem.df))

\* C7 as stated: an update tuple whose update column is not a column of the
\* table is a no-op: the columns and every cell are the same before and
\* after the tuple, even when rows meet its condition.
C7_AbsentUpdateColumnIsNoOp ==
    Updating =>
        /\ resp.status = 200 => Holds(Persisted, UStep(Len(req.updates)).df)
        /\ \A i \in 1..Len(req.updates) :
             (/\ UStep(i - 1).ok
              /\ req.updates[i].update_column \notin Range(UStep(i - 1).df.cols))
             => UStep(i).df = UStep(i - 1).df

\* the handler got as far as its to_excel
Wrote == Found /\ ~MissingField(req) /\ mem.ok

\* C10: a legacy path is read and never written.  Whatever request is
\* answered on a .xls path, the file at that path is still the workbook the
\* service started with; a request that gets as far as writing leaves in
\* the .xlsx file beside it that workbook with this one request applied, so
\* sending the request again leaves the same file and nothing accumulates.
C10_LegacyNeverWritten ==
    (Answered /\ Ext(req.file_path) = ".xls") =>
        /\ disk[req.file_path] = before[req.file_path]
        /\ Found => disk[req.file_path] \in LegacySeeds
        /\ resp.status = 200 => Wrote
        /\ Wrote => Holds(disk[Sibling(req.file_path)], Merge(req, Loaded).df)
        /\ ~Wrote => disk = before
        /\ (Wrote /\ pass = 2) =>
              disk[Sibling(req.file_path)] = before[Sibling(req.file_path)]

\* the same append answered twice on a legacy path: the modern file beside
\* it has one more row than the legacy workbook, not two
C10_Witness ==
    /\ Appending /\ Found /\ pass = 2 /\ resp.status = 200
    /\ Ext(req.file_path) = ".xls"
    /\ Len(Batch) = 1
    /\ before[Sibling(req.file_path)].exists
    /\ Len(disk[Sibling(req.file_path)].rows) = Len(disk[req.file_path].rows) + 1
    /\ resp.total_rows = Len(disk[req.file_path].rows) + 1

====
